---- MODULE Spec2Model ----
(***************************************************************************)
(* Model of the plotting helpers of plot_utility.py and of the example     *)
(* script sklearn_knn.py.                                                   *)
(*                                                                         *)
(* The plotting library is modelled by the sequence of calls made to it    *)
(* (variable calls); a supplied classifier or regressor by a small record  *)
(* that either raises or computes a value for each row it is given.        *)
(* Coordinates are integers in units of 1/Scale.  Python positions are     *)
(* 0-based, sequences here 1-based: position i is element i + 1.           *)
(***************************************************************************)
EXTENDS Integers, Sequences, FiniteSets

VARIABLES helper, args, calls, predicts, outcome, pc, locals, events

vars == <<helper, args, calls, predicts, outcome, pc, locals, events>>

-----------------------------------------------------------------------------
(* Bounds of the model. *)

MaxSamples == 2
Scale == 2
MaxData == 4

(* Resolutions run from 1/Scale up to 2, so that both r <= 1 and r > 1 occur. *)
MaxResolution == 2 * Scale

-----------------------------------------------------------------------------
(* Array helpers (numpy). *)

Min(S) == CHOOSE m \in S : \A e \in S : m <= e

Max(S) == CHOOSE m \in S : \A e \in S : m >= e

Range(s) == {s[i] : i \in 1..Len(s)}

RECURSIVE SortedSeq(_)
SortedSeq(S) == IF S = {} THEN <<>> ELSE <<Min(S)>> \o SortedSeq(S \ {Min(S)})

RECURSIVE Unique_FirstSeen(_)
(* A variant that keeps the order of first appearance instead of sorting. *)
Unique_FirstSeen(y) ==
    IF Len(y) = 0 THEN <<>>
    ELSE <<y[1]>> \o Unique_FirstSeen(SelectSeq(Tail(y), LAMBDA v : v # y[1]))

(* np.unique(y): the distinct values of y in ascending order. *)
Unique(y) == SortedSeq(Range(y))

(* X[:, j] *)
Column(X, j) == [i \in 1..Len(X) |-> X[i][j]]

(* y == label: the boolean mask *)
PlotIndex(y, label) == [i \in 1..Len(y) |-> y[i] = label]

RECURSIVE MaskSelect(_, _)
(* a[mask]: the elements at the TRUE positions, in order. *)
MaskSelect(a, mask) ==
    IF Len(a) = 0 THEN <<>>
    ELSE (IF mask[1] THEN <<a[1]>> ELSE <<>>)
         \o MaskSelect(Tail(a), Tail(mask))

(* a[idx] for a list idx of 0-based positions. *)
FancyIndex(a, idx) == [k \in 1..Len(idx) |-> a[idx[k] + 1]]

(* An index list can be applied to an array of n rows without IndexError. *)
InBounds(idx, n) == \A k \in 1..Len(idx) : idx[k] >= 0 /\ idx[k] < n

ZipLen(a, b, c) == Min({Len(a), Len(b), Len(c)})

(* zip(a, b, c): stops at the shortest. *)
Zip(a, b, c) == [k \in 1..ZipLen(a, b, c) |-> <<a[k], b[k], c[k]>>]

CeilDiv(a, b) == (a + b - 1) \div b

(* A variant that rounds the number of steps down. *)
Arange_Floor(start, stop, step) ==
    IF stop <= start THEN <<>>
    ELSE [k \in 1..((stop - start) \div step) |-> start + (k - 1) * step]

(* np.arange(start, stop, step) for step > 0. *)
Arange(start, stop, step) ==
    IF stop <= start THEN <<>>
    ELSE [k \in 1..CeilDiv(stop - start, step) |-> start + (k - 1) * step]

(* np.meshgrid(a, b): shape (len(b), len(a)), x1[i][j] = a[j], x2[i][j] = b[i]. *)
MeshX1(a, b) == [i \in 1..Len(b) |-> a]

MeshX2(a, b) == [i \in 1..Len(b) |-> [j \in 1..Len(a) |-> b[i]]]

RECURSIVE Ravel(_)
(* m.ravel(): row-major flattening. *)
Ravel(m) == IF Len(m) = 0 THEN <<>> ELSE m[1] \o Ravel(Tail(m))

(* np.array([u, v]).T: one row per position, two columns. *)
Transpose2(u, v) == [k \in 1..Len(u) |-> <<u[k], v[k]>>]

(* z.reshape(shape) for a shape of rows x cols. *)
Reshape(z, rows, cols) ==
    [i \in 1..rows |-> [j \in 1..cols |-> z[(i - 1) * cols + j]]]

FlatMin(m) == Min(Range(Ravel(m)))

FlatMax(m) == Max(Range(Ravel(m)))

-----------------------------------------------------------------------------
(* Optional arguments. *)

None == [isNone |-> TRUE, value |-> <<>>]

Some(v) == [isNone |-> FALSE, value |-> v]

(* A variant that tests "is not None", so that [] counts as given. *)
Truthy_NotNone(test_idx) == ~test_idx.isNone

(* Python truth value of test_idx: None and [] are false. *)
Truthy(test_idx) == ~test_idx.isNone /\ Len(test_idx.value) > 0

-----------------------------------------------------------------------------
(* Supplied classifier / regressor objects. *)

PredictOne(model, row) ==
    CASE model.kind = "constant" -> model.value
      [] model.kind = "first" -> row[1]
      [] model.kind = "threshold" -> IF row[1] <= model.value THEN 1 ELSE 2

(* model.predict(rows): one value per row. *)
Predict(model, rows) == [k \in 1..Len(rows) |-> PredictOne(model, rows[k])]

PredictRaises(model) == model.kind = "raises"

-----------------------------------------------------------------------------
(* Results of running a helper. *)

Returned(cs, ps) ==
    [calls |-> cs, predicts |-> ps, outcome |-> [status |-> "returned", error |-> ""]]

Raised(cs, ps, err) ==
    [calls |-> cs, predicts |-> ps, outcome |-> [status |-> "raised", error |-> err]]

-----------------------------------------------------------------------------
(* plot_features and plot_decision_regions. *)

markers == <<"s", "x", "o", "^", "v">>

colors == <<"red", "blue", "lightgreen", "gray", "cyan">>

(* A variant that hands over the whole colour tuple. *)
ColorSlice_Whole(n) == colors

(* colors[:n] *)
ColorSlice(n) == SubSeq(colors, 1, Min({n, Len(colors)}))

ClassScatter(X, y, color, marker, label) ==
    [fn |-> "scatter", site |-> "class",
     x |-> MaskSelect(Column(X, 1), PlotIndex(y, label)),
     y |-> MaskSelect(Column(X, 2), PlotIndex(y, label)),
     alpha |-> "0.8", c |-> color, marker |-> marker,
     edgecolor |-> "black", label |-> label]

(* The loop over zip(colors, markers, np.unique(y)). *)
ClassScatters(X, y) ==
    LET z == Zip(colors, markers, Unique(y))
    IN  [k \in 1..Len(z) |-> ClassScatter(X, y, z[k][1], z[k][2], z[k][3])]

TestScatter(xs, ys, idx, size, label) ==
    [fn |-> "scatter", site |-> "test",
     x |-> FancyIndex(xs, idx), y |-> FancyIndex(ys, idx),
     alpha |-> "1.0", c |-> "", marker |-> "o", edgecolor |-> "black",
     linewidth |-> 1, s |-> size, label |-> label]

TitleCalls(title) ==
    IF title.isNone THEN <<>> ELSE <<[fn |-> "title", text |-> title.value]>>

LabelCalls(xlabel, ylabel, title) ==
    <<[fn |-> "xlabel", text |-> xlabel], [fn |-> "ylabel", text |-> ylabel]>>
    \o TitleCalls(title)

ShowCall == [fn |-> "show"]

LegendCall(loc) == [fn |-> "legend", loc |-> loc]

PlotFeaturesRun(X, y, test_idx, xlabel, ylabel, title, loc) ==
    LET cls == ClassScatters(X, y)
    IN  IF Truthy(test_idx) /\ ~InBounds(test_idx.value, Len(X))
        THEN Raised(cls, <<>>, "IndexError")
        ELSE Returned(
               cls
               \o (IF Truthy(test_idx)
                   THEN <<TestScatter(Column(X, 1), Column(X, 2),
                                      test_idx.value, 100, "test_set")>>
                   ELSE <<>>)
               \o LabelCalls(xlabel, ylabel, title)
               \o <<LegendCall(loc)>>
               \o <<ShowCall>>,
               <<>>)

GridAxis(col, resolution) ==
    Arange(Min(Range(col)) - Scale, Max(Range(col)) + Scale, resolution)

PlotDecisionRegionsRun(X, y, classifier, test_idx, resolution, xlabel, ylabel, title, loc) ==
    IF Len(X) = 0 THEN Raised(<<>>, <<>>, "ValueError")
    ELSE
    LET color_map == ColorSlice(Len(Unique(y)))
        a1 == GridAxis(Column(X, 1), resolution)
        a2 == GridAxis(Column(X, 2), resolution)
        x1 == MeshX1(a1, a2)
        x2 == MeshX2(a1, a2)
        points == Transpose2(Ravel(x1), Ravel(x2))
        ps == <<[arg |-> points]>>
        z == Reshape(Predict(classifier, points), Len(a2), Len(a1))
        contour == [fn |-> "contourf", x1 |-> x1, x2 |-> x2, z |-> z,
                    alpha |-> "0.3", cmap |-> color_map]
        cls == <<contour>> \o ClassScatters(X, y)
    IN  IF PredictRaises(classifier) THEN Raised(<<>>, ps, classifier.error)
        ELSE IF Truthy(test_idx) /\ ~InBounds(test_idx.value, Len(X))
        THEN Raised(cls, ps, "IndexError")
        ELSE Returned(
               cls
               \o (IF Truthy(test_idx)
                   THEN <<TestScatter(Column(X, 1), Column(X, 2),
                                      test_idx.value, 100, "test_set")>>
                   ELSE <<>>)
               \o <<[fn |-> "xlim", lo |-> FlatMin(x1), hi |-> FlatMax(x1)],
                    [fn |-> "ylim", lo |-> FlatMin(x2), hi |-> FlatMax(x2)]>>
               \o LabelCalls(xlabel, ylabel, title)
               \o <<LegendCall(loc)>>
               \o <<ShowCall>>,
               ps)

-----------------------------------------------------------------------------
(* plot_predictions and plot_residuals. *)

(* A variant that draws the legend only when the overlay is drawn. *)
TrainingLegend_WhenOverlay(test_idx, loc) ==
    IF ~test_idx.isNone /\ Len(test_idx.value) > 0
    THEN <<[fn |-> "legend", loc |-> loc]>> ELSE <<>>

TrainingLegend(test_idx, loc) ==
    IF ~test_idx.isNone THEN <<LegendCall(loc)>> ELSE <<>>

PlotPredictionsRun(x, y, regressor, test_idx, xlabel, ylabel, title, loc) ==
    LET rows == [i \in 1..Len(x) |-> <<x[i]>>]
        ps == <<[arg |-> rows]>>
        line == [fn |-> "plot", x |-> x, y |-> Predict(regressor, rows),
                 color |-> "black", lw |-> 1]
        training == [fn |-> "scatter", site |-> "training", x |-> x, y |-> y,
                     c |-> "steelblue", edgecolor |-> "white", s |-> 70,
                     label |-> "training data"]
    IN  IF PredictRaises(regressor) THEN Raised(<<>>, ps, regressor.error)
        ELSE IF Truthy(test_idx) /\ ~InBounds(test_idx.value, Len(x))
        THEN Raised(<<line, training>>, ps, "IndexError")
        ELSE Returned(
               <<line, training>>
               \o (IF Truthy(test_idx)
                   THEN <<TestScatter(x, y, test_idx.value, 100, "test data")>>
                   ELSE <<>>)
               \o LabelCalls(xlabel, ylabel, title)
               \o TrainingLegend(test_idx, loc)
               \o <<ShowCall>>,
               ps)

(* A variant with the sign reversed: actual minus prediction. *)
Residuals_ActualMinusPrediction(y_pred, y) ==
    [i \in 1..Len(y_pred) |-> y[i] - y_pred[i]]

(* y_pred - y, elementwise. *)
Residuals(y_pred, y) == [i \in 1..Len(y_pred) |-> y_pred[i] - y[i]]

(* plot_residuals once regressor.predict(X) has returned y_pred. *)
PlotResidualsBody(y_pred, y, ps, test_idx, xlabel, ylabel, title, loc) ==
    LET scatter_x == y_pred
        scatter_y == Residuals(y_pred, y)
        training == [fn |-> "scatter", site |-> "training",
                     x |-> scatter_x, y |-> scatter_y,
                     c |-> "steelblue", marker |-> "o", edgecolor |-> "white",
                     label |-> "training data"]
        hlines == [fn |-> "hlines", y |-> 0, xmin |-> -10, xmax |-> 50,
                   color |-> "black", lw |-> 1]
    IN  IF Truthy(test_idx) /\ ~InBounds(test_idx.value, Len(y_pred))
        THEN Raised(<<training>>, ps, "IndexError")
        ELSE Returned(
               <<training>>
               \o (IF Truthy(test_idx)
                   THEN <<TestScatter(scatter_x, scatter_y,
                                      test_idx.value, 75, "test data")>>
                   ELSE <<>>)
               \o <<hlines>>
               \o LabelCalls(xlabel, ylabel, title)
               \o TrainingLegend(test_idx, loc)
               \o <<ShowCall>>,
               ps)

(* A variant that catches the regressor's error and shows an empty figure. *)
PlotResidualsRun_Swallow(X, y, regressor, test_idx, xlabel, ylabel, title, loc) ==
    IF PredictRaises(regressor)
    THEN Returned(<<ShowCall>>, <<[arg |-> X]>>)
    ELSE PlotResidualsBody(Predict(regressor, X), y, <<[arg |-> X]>>,
                           test_idx, xlabel, ylabel, title, loc)

PlotResidualsRun(X, y, regressor, test_idx, xlabel, ylabel, title, loc) ==
    IF PredictRaises(regressor)
    THEN Raised(<<>>, <<[arg |-> X]>>, regressor.error)
    ELSE PlotResidualsBody(Predict(regressor, X), y, <<[arg |-> X]>>,
                           test_idx, xlabel, ylabel, title, loc)

-----------------------------------------------------------------------------
(* Arguments the helpers are called with. *)

Coords == 0..1

Points == Coords \X Coords

(* Label vectors of n samples; any label vector is order-isomorphic to one *)
(* over 1..n.                                                              *)
LabelVectors(n) == [1..n -> 1..n]

(* Data with more distinct labels than there are colours: every label     *)
(* distinct, Len(colors) or Len(colors) + 1 samples.                       *)
PaletteSizes == {Len(colors), Len(colors) + 1}

DistinctLabelVectors(n) ==
    {y \in [1..n -> 1..(Len(colors) + 1)] :
        \A i, j \in 1..n : i # j => y[i] # y[j]}

SpreadX(n) == [i \in 1..n |-> <<i, n - i>>]

TestIdxArgs(n) ==
    {None, Some(<<>>)}
    \cup {Some(<<i>>) : i \in 0..n}
    \cup (IF n > 0 THEN {Some(<<n - 1, 0>>)} ELSE {})

TitleArgs == {None, Some("title")}

RaisingModels ==
    {[kind |-> "raises", value |-> 0, error |-> e] :
        e \in {"ValueError", "NotFittedError"}}

ClassifierArgs ==
    RaisingModels
    \cup {[kind |-> "constant", value |-> 1, error |-> ""],
          [kind |-> "threshold", value |-> 0, error |-> ""]}

RegressorArgs ==
    RaisingModels
    \cup {[kind |-> "constant", value |-> 1, error |-> ""],
          [kind |-> "first", value |-> 0, error |-> ""]}

ResolutionArgs == 1..MaxResolution

(* Classifier and resolution: each varied with the other at its plain value. *)
GridArgs ==
    {<<c, Scale>> : c \in ClassifierArgs}
    \cup {<<[kind |-> "threshold", value |-> 0, error |-> ""], r>> :
            r \in ResolutionArgs}

ClassDataArgs ==
    UNION {[1..n -> Points] \X LabelVectors(n) \X TestIdxArgs(n) \X TitleArgs :
             n \in 0..MaxSamples}
    \cup UNION {{SpreadX(n)} \X DistinctLabelVectors(n)
                 \X {None, Some(<<n - 1>>)} \X {None} :
                 n \in PaletteSizes}

-----------------------------------------------------------------------------
(* State. *)

NoOutcome == [status |-> "none", error |-> ""]

Init ==
    /\ helper = "none"
    /\ args = <<>>
    /\ calls = <<>>
    /\ predicts = <<>>
    /\ outcome = NoOutcome
    /\ pc = "idle"
    /\ locals = <<>>
    /\ events = <<>>

Finish(name, a, run) ==
    /\ helper' = name
    /\ args' = a
    /\ calls' = run.calls
    /\ predicts' = run.predicts
    /\ outcome' = run.outcome

PlotFeatures ==
    /\ pc = "idle" /\ helper = "none"
    /\ \E d \in ClassDataArgs :
          Finish("plot_features",
                 [X |-> d[1], y |-> d[2], test_idx |-> d[3], title |-> d[4]],
                 PlotFeaturesRun(d[1], d[2], d[3], "x", "y", d[4], "best"))
    /\ UNCHANGED <<pc, locals, events>>

PlotDecisionRegions ==
    /\ pc = "idle" /\ helper = "none"
    /\ \E d \in ClassDataArgs, g \in GridArgs :
          Finish("plot_decision_regions",
                 [X |-> d[1], y |-> d[2], test_idx |-> d[3], title |-> d[4],
                  classifier |-> g[1], resolution |-> g[2]],
                 PlotDecisionRegionsRun(d[1], d[2], g[1], d[3], g[2],
                                        "x", "y", d[4], "best"))
    /\ UNCHANGED <<pc, locals, events>>

PlotPredictions ==
    /\ pc = "idle" /\ helper = "none"
    /\ \E n \in 0..MaxSamples :
       \E x \in [1..n -> Coords], y \in LabelVectors(n), r \in RegressorArgs,
          t \in TestIdxArgs(n), title \in TitleArgs :
          Finish("plot_predictions",
                 [x |-> x, y |-> y, test_idx |-> t, title |-> title,
                  regressor |-> r],
                 PlotPredictionsRun(x, y, r, t, "x", "y", title, "best"))
    /\ UNCHANGED <<pc, locals, events>>

PlotResiduals ==
    /\ pc = "idle" /\ helper = "none"
    /\ \E n \in 0..MaxSamples :
       \E X \in [1..n -> Points], y \in LabelVectors(n), r \in RegressorArgs,
          t \in TestIdxArgs(n), title \in TitleArgs :
          Finish("plot_residuals",
                 [X |-> X, y |-> y, test_idx |-> t, title |-> title,
                  regressor |-> r],
                 PlotResidualsRun(X, y, r, t, "predicted values", "residuals",
                                  title, "best"))
    /\ UNCHANGED <<pc, locals, events>>

Next == PlotFeatures \/ PlotDecisionRegions \/ PlotPredictions \/ PlotResiduals

Spec == Init /\ [][Next]_vars

-----------------------------------------------------------------------------
(* The example script sklearn_knn.py. *)

TestSizeNum == 3

TestSizeDen == 10

(* The data set: two features per sample, three classes in blocks. *)
IrisData(n) ==
    [X |-> SpreadX(n), y |-> [i \in 1..n |-> ((i - 1) * 3) \div n]]

(* A variant that numbers the test samples from 0. *)
RangeList_FromZero(a, b) ==
    IF b <= a THEN <<>> ELSE [k \in 1..(b - a) |-> k - 1]

(* range(a, b) as a list *)
RangeList(a, b) == IF b <= a THEN <<>> ELSE [k \in 1..(b - a) |-> a + k - 1]

Permutations(n) ==
    {f \in [1..n -> 1..n] : \A i, j \in 1..n : i # j => f[i] # f[j]}

(* Number of test samples train_test_split takes: ceil(test_size * n). *)
TestCount(n) == CeilDiv(n * TestSizeNum, TestSizeDen)

(* train_test_split: a shuffled partition of the samples, the first        *)
(* n - TestCount(n) positions of the shuffle for training, the rest for    *)
(* testing.  Which shuffle is the library's choice.                        *)
TrainTestSplit(X, y, perm) ==
    LET n == Len(y)
        nTrain == n - TestCount(n)
    IN  [X_train |-> [k \in 1..nTrain |-> X[perm[k]]],
         X_test |-> [k \in 1..(n - nTrain) |-> X[perm[nTrain + k]]],
         y_train |-> [k \in 1..nTrain |-> y[perm[k]]],
         y_test |-> [k \in 1..(n - nTrain) |-> y[perm[nTrain + k]]]]

RECURSIVE SumSeq(_)
SumSeq(s) == IF Len(s) = 0 THEN 0 ELSE s[1] + SumSeq(Tail(s))

(* StandardScaler().fit(X): the per-column statistics of X.  Only the      *)
(* centring is kept (integer mean); dividing by the standard deviation is  *)
(* a positive rescaling of each column and is left out.                    *)
ScalerFit(X) ==
    [mean |-> <<SumSeq(Column(X, 1)) \div Len(X),
                SumSeq(Column(X, 2)) \div Len(X)>>]

(* sc.transform(X): row by row. *)
ScalerTransform(sc, X) ==
    [i \in 1..Len(X) |-> <<X[i][1] - sc.mean[1], X[i][2] - sc.mean[2]>>]

(* np.vstack / np.hstack of two arrays *)
Stack(a, b) == a \o b

ClassifierParams ==
    <<[n_neighbors |-> 4, p |-> 2], [n_neighbors |-> 5, p |-> 2],
      [n_neighbors |-> 6, p |-> 2], [n_neighbors |-> 5, p |-> 1]>>

(* What a fitted KNeighborsClassifier computes is the library's business:  *)
(* a deterministic function of the row, here one of two shapes.            *)
FitRules(y) ==
    {[kind |-> "constant", value |-> y[1]], [kind |-> "threshold", value |-> 0]}

(* KNeighborsClassifier(n_neighbors, p, metric='minkowski').fit(X, y) *)
KNeighborsFit(params, rule, X, y) ==
    [kind |-> rule.kind, value |-> rule.value, error |-> "",
     n_neighbors |-> params.n_neighbors, p |-> params.p,
     metric |-> "minkowski", fit_X |-> X, fit_y |-> y]

(* A variant that counts the correctly classified samples. *)
Misclassified_Correct(y_test, y_pred) ==
    Cardinality({j \in 1..Len(y_test) : y_test[j] = y_pred[j]})

(* np.sum(y_test != y_pred) *)
Misclassified(y_test, y_pred) ==
    Cardinality({j \in 1..Len(y_test) : y_test[j] # y_pred[j]})

(* The default of plot_decision_regions' resolution parameter, 0.02, in    *)
(* units of 1/Scale and no finer than one unit.                            *)
DefaultResolution == Max({1, (2 * Scale) \div 100})

DataSizes == 2..MaxData

MainLoad ==
    /\ pc = "idle" /\ helper = "none"
    /\ \E n \in DataSizes :
          locals' = [X |-> IrisData(n).X, y |-> IrisData(n).y]
    /\ pc' = "split"
    /\ UNCHANGED <<helper, args, calls, predicts, outcome, events>>

MainSplit ==
    /\ pc = "split"
    /\ \E perm \in Permutations(Len(locals.y)) :
          LET sp == TrainTestSplit(locals.X, locals.y, perm)
              sc == ScalerFit(sp.X_train)
              X_train_std == ScalerTransform(sc, sp.X_train)
              X_test_std == ScalerTransform(sc, sp.X_test)
          IN  locals' =
                [X |-> locals.X, y |-> locals.y,
                 X_train |-> sp.X_train, X_test |-> sp.X_test,
                 y_train |-> sp.y_train, y_test |-> sp.y_test,
                 X_train_std |-> X_train_std, X_test_std |-> X_test_std,
                 X_combined_std |-> Stack(X_train_std, X_test_std),
                 y_combined |-> Stack(sp.y_train, sp.y_test),
                 classifiers |-> <<>>, i |-> 0, y_pred |-> <<>>]
    /\ pc' = "fit"
    /\ UNCHANGED <<helper, args, calls, predicts, outcome, events>>

MainFit ==
    /\ pc = "fit"
    /\ \E rules \in [1..Len(ClassifierParams) -> FitRules(locals.y_train)] :
          /\ locals' =
               [locals EXCEPT
                  !.classifiers =
                     [k \in 1..Len(ClassifierParams) |->
                        KNeighborsFit(ClassifierParams[k], rules[k],
                                      locals.X_train_std, locals.y_train)],
                  !.i = 1]
          /\ events' =
               events \o
               [k \in 1..Len(ClassifierParams) |->
                  [ev |-> "fit", classifier |-> k,
                   X |-> locals.X_train_std, y |-> locals.y_train]]
    /\ pc' = "predict"
    /\ UNCHANGED <<helper, args, calls, predicts, outcome>>

MainPredictPrint ==
    /\ pc = "predict"
    /\ LET y_pred == Predict(locals.classifiers[locals.i], locals.X_test_std)
       IN  /\ locals' = [locals EXCEPT !.y_pred = y_pred]
           /\ events' =
                Append(events,
                       [ev |-> "print", classifier |-> locals.i,
                        count |-> Misclassified(locals.y_test, y_pred)])
    /\ pc' = "plot"
    /\ UNCHANGED <<helper, args, calls, predicts, outcome>>

MainPlot ==
    /\ pc = "plot"
    /\ LET classifier == locals.classifiers[locals.i]
           test_idx == Some(RangeList(Len(locals.y_train), Len(locals.y)))
           run == PlotDecisionRegionsRun(
                    locals.X_combined_std, locals.y_combined, classifier,
                    test_idx, DefaultResolution, "x", "y", None, "best")
       IN  /\ Finish("plot_decision_regions",
                     [X |-> locals.X_combined_std, y |-> locals.y_combined,
                      test_idx |-> test_idx, title |-> None,
                      classifier |-> classifier,
                      resolution |-> DefaultResolution],
                     run)
           /\ events' =
                Append(events, [ev |-> "plot", classifier |-> locals.i])
           /\ pc' = IF run.outcome.status = "raised" THEN "raised"
                    ELSE IF locals.i = Len(locals.classifiers) THEN "done"
                    ELSE "predict"
           /\ locals' = [locals EXCEPT !.i = locals.i + 1]

NextMain == MainLoad \/ MainSplit \/ MainFit \/ MainPredictPrint \/ MainPlot

SpecMain == Init /\ [][NextMain]_vars

-----------------------------------------------------------------------------
(* Reading the recorded calls. *)

IsClassScatter(c) == c.fn = "scatter" /\ c.site = "class"

IsTrainingScatter(c) == c.fn = "scatter" /\ c.site = "training"

IsTestScatter(c) == c.fn = "scatter" /\ c.site = "test"

IsDrawing(c) == c.fn \in {"contourf", "plot", "scatter", "hlines"}

CallsWhere(Test(_)) == {k \in 1..Len(calls) : Test(calls[k])}

ClassHelper == helper \in {"plot_features", "plot_decision_regions"}

RegressorHelper == helper \in {"plot_predictions", "plot_residuals"}

ReturnedRun == outcome.status = "returned"

(* The positions (1-based) of the samples carrying label L, ascending. *)
SamplesOf(y, L) == SortedSeq({i \in 1..Len(y) : y[i] = L})

(* Column j of the rows of X carrying label L, in row order. *)
RowsOf(X, y, L, j) ==
    [k \in 1..Len(SamplesOf(y, L)) |-> X[SamplesOf(y, L)[k]][j]]

ClassScatterOf(L) == {k \in CallsWhere(IsClassScatter) : calls[k].label = L}

(* C1: in plot_features and plot_decision_regions every distinct label L  *)
(* of y, however many there are, gets exactly one class scatter call,     *)
(* which receives exactly the rows of X with y[i] = L, so that every      *)
(* sample is drawn by exactly one class scatter call.                     *)
C1_EveryLabelScattered ==
    (ClassHelper /\ ReturnedRun) =>
        /\ \A L \in Range(args.y) :
              /\ Cardinality(ClassScatterOf(L)) = 1
              /\ \A k \in ClassScatterOf(L) :
                    /\ calls[k].x = RowsOf(args.X, args.y, L, 1)
                    /\ calls[k].y = RowsOf(args.X, args.y, L, 2)
        /\ \A i \in 1..Len(args.y) : Cardinality(ClassScatterOf(args.y[i])) = 1

(* The same statement for data with no more distinct labels than colours. *)
C1_WithinPalette ==
    (ClassHelper /\ ReturnedRun /\ Cardinality(Range(args.y)) <= Len(colors)) =>
        /\ \A L \in Range(args.y) :
              /\ Cardinality(ClassScatterOf(L)) = 1
              /\ \A k \in ClassScatterOf(L) :
                    /\ calls[k].x = RowsOf(args.X, args.y, L, 1)
                    /\ calls[k].y = RowsOf(args.X, args.y, L, 2)
        /\ \A i \in 1..Len(args.y) : Cardinality(ClassScatterOf(args.y[i])) = 1

(* C2: plot_residuals passes to the training scatter, for every sample i, *)
(* the point (p[i], p[i] - y[i]) with p = regressor.predict(X); predict   *)
(* is called once, on the whole X, and one point is plotted per sample.   *)
C2_ResidualIsPredictionMinusActual ==
    (helper = "plot_residuals" /\ ~PredictRaises(args.regressor)) =>
        /\ Len(predicts) = 1
        /\ predicts[1].arg = args.X
        /\ Cardinality(CallsWhere(IsTrainingScatter)) = 1
        /\ \A k \in CallsWhere(IsTrainingScatter) :
              /\ Len(calls[k].x) = Len(args.X)
              /\ Len(calls[k].y) = Len(args.X)
              /\ \A i \in 1..Len(args.X) :
                    /\ calls[k].x[i] = PredictOne(args.regressor, args.X[i])
                    /\ calls[k].y[i] =
                          PredictOne(args.regressor, args.X[i]) - args.y[i]

C2_Witness ==
    /\ helper = "plot_residuals"
    /\ ReturnedRun
    /\ Len(args.X) = MaxSamples
    /\ \E k \in CallsWhere(IsTrainingScatter) :
          /\ calls[k].y[1] < 0
          /\ calls[k].y[1] # calls[k].y[2]
          /\ calls[k].x[1] # calls[k].x[2]

(* The place of a call in the order a helper issues its calls. *)
Stage(c) ==
    CASE c.fn \in {"contourf", "plot"} -> 1
      [] c.fn = "scatter" /\ c.site \in {"class", "training"} -> 2
      [] c.fn = "scatter" /\ c.site = "test" -> 3
      [] c.fn = "hlines" -> 4
      [] c.fn = "xlim" -> 5
      [] c.fn = "ylim" -> 6
      [] c.fn = "xlabel" -> 7
      [] c.fn = "ylabel" -> 8
      [] c.fn = "title" -> 9
      [] c.fn = "legend" -> 10
      [] c.fn = "show" -> 11

(* C3: a helper that does not raise issues its calls in this order: the   *)
(* contourf (plot_decision_regions only), the class/training scatters     *)
(* (class scatters by ascending label), the optional test-set overlay,    *)
(* the axis labelling (xlabel, ylabel, optional title, optional legend)   *)
(* and last plt.show, exactly once; nothing is drawn after show.          *)
C3_CallOrder ==
    /\ \A k \in 1..Len(calls) : calls[k].fn = "show" => k = Len(calls)
    /\ (helper # "none" /\ ReturnedRun) =>
          /\ Len(calls) > 0
          /\ calls[Len(calls)].fn = "show"
          /\ Cardinality(CallsWhere(LAMBDA c : c.fn = "show")) = 1
          /\ Cardinality(CallsWhere(LAMBDA c : c.fn = "xlabel")) = 1
          /\ Cardinality(CallsWhere(LAMBDA c : c.fn = "ylabel")) = 1
          /\ helper = "plot_decision_regions" => calls[1].fn = "contourf"
          /\ Cardinality(CallsWhere(LAMBDA c : c.fn = "contourf")) =
                (IF helper = "plot_decision_regions" THEN 1 ELSE 0)
          /\ \A k \in 1..(Len(calls) - 1) :
                \/ Stage(calls[k]) < Stage(calls[k + 1])
                \/ /\ IsClassScatter(calls[k])
                   /\ IsClassScatter(calls[k + 1])
                   /\ calls[k].label < calls[k + 1].label

C3_Witness ==
    /\ helper = "plot_decision_regions"
    /\ ReturnedRun
    /\ Cardinality(CallsWhere(IsClassScatter)) >= 2
    /\ Cardinality(CallsWhere(IsTestScatter)) = 1
    /\ Cardinality(CallsWhere(LAMBDA c : c.fn = "title")) = 1
    /\ args.y[1] > args.y[2]

(* The classifier or regressor the helper was given. *)
SuppliedModel ==
    IF helper = "plot_decision_regions" THEN args.classifier ELSE args.regressor

PredictHelper ==
    helper \in {"plot_decision_regions", "plot_predictions", "plot_residuals"}

(* C4: when the supplied predict raises, plot_decision_regions,           *)
(* plot_predictions and plot_residuals end by raising that same error,    *)
(* with no drawing call issued and plt.show never called.                 *)
C4_PredictErrorPropagates ==
    (PredictHelper /\ Len(predicts) > 0 /\ PredictRaises(SuppliedModel)) =>
        /\ outcome.status = "raised"
        /\ outcome.error = SuppliedModel.error
        /\ Len(predicts) = 1
        /\ CallsWhere(IsDrawing) = {}
        /\ CallsWhere(LAMBDA c : c.fn = "show") = {}

C4_Witness ==
    /\ helper = "plot_residuals"
    /\ Len(predicts) = 1
    /\ Len(args.X) > 0
    /\ PredictRaises(args.regressor)
    /\ outcome = [status |-> "raised", error |-> "NotFittedError"]

(* The two columns the helper indexes with test_idx. *)
OverlayColumn(j) ==
    CASE ClassHelper -> [i \in 1..Len(args.X) |-> args.X[i][j]]
      [] helper = "plot_predictions" ->
           [i \in 1..Len(args.x) |-> IF j = 1 THEN args.x[i] ELSE args.y[i]]
      [] helper = "plot_residuals" ->
           [i \in 1..Len(args.X) |->
              IF j = 1 THEN PredictOne(args.regressor, args.X[i])
              ELSE PredictOne(args.regressor, args.X[i]) - args.y[i]]

LabelsBelow(y, L) == Cardinality({l \in Range(y) : l < L})

(* C7: the k-th class scatter of plot_features / plot_decision_regions    *)
(* draws the k-th smallest distinct label of y with the k-th marker of    *)
(* ('s','x','o','^','v') and the k-th colour of ('red','blue',            *)
(* 'lightgreen','gray','cyan'), so that two plotted labels never share a  *)
(* marker or a colour; and the colour map given to contourf is the        *)
(* sequence of the class scatters' colours.                               *)
C7_StyleByLabelRank ==
    ClassHelper =>
        LET cls == SortedSeq(CallsWhere(IsClassScatter))
        IN  /\ \A k \in 1..Len(cls) :
                  /\ calls[cls[k]].label \in Range(args.y)
                  /\ LabelsBelow(args.y, calls[cls[k]].label) = k - 1
                  /\ calls[cls[k]].marker = <<"s", "x", "o", "^", "v">>[k]
                  /\ calls[cls[k]].c =
                        <<"red", "blue", "lightgreen", "gray", "cyan">>[k]
            /\ \A j, k \in 1..Len(cls) :
                  j # k =>
                     /\ calls[cls[j]].label # calls[cls[k]].label
                     /\ calls[cls[j]].marker # calls[cls[k]].marker
                     /\ calls[cls[j]].c # calls[cls[k]].c
            /\ (helper = "plot_decision_regions" /\ ReturnedRun) =>
                  \A m \in CallsWhere(LAMBDA c : c.fn = "contourf") :
                     /\ Len(calls[m].cmap) = Len(cls)
                     /\ \A k \in 1..Len(cls) : calls[m].cmap[k] = calls[cls[k]].c

C7_Witness ==
    /\ helper = "plot_decision_regions"
    /\ ReturnedRun
    /\ Cardinality(CallsWhere(IsClassScatter)) = 5
    /\ args.y[1] > args.y[2]

(* C8: plot_features and plot_decision_regions call plt.legend on every   *)
(* completed call; plot_predictions and plot_residuals call it if and     *)
(* only if test_idx is not None, so also for test_idx = [] where no       *)
(* overlay is drawn, and never for test_idx = None.                       *)
C8_LegendRule ==
    (helper # "none" /\ ReturnedRun) =>
        /\ ClassHelper => Cardinality(CallsWhere(LAMBDA c : c.fn = "legend")) = 1
        /\ RegressorHelper =>
              /\ Cardinality(CallsWhere(LAMBDA c : c.fn = "legend")) =
                    (IF args.test_idx.isNone THEN 0 ELSE 1)
              /\ CallsWhere(IsTestScatter) # {}
                    => CallsWhere(LAMBDA c : c.fn = "legend") # {}

C8_Witness ==
    /\ helper = "plot_predictions"
    /\ ReturnedRun
    /\ args.test_idx = Some(<<>>)
    /\ Len(args.x) > 0
    /\ CallsWhere(IsTestScatter) = {}
    /\ Cardinality(CallsWhere(LAMBDA c : c.fn = "legend")) = 1

(* The grid coordinates of one axis: from lo - 1 in steps of r, below hi + 1. *)
AxisCoordinates(col, r) ==
    {v \in (Min(Range(col)) - Scale)..(Max(Range(col)) + Scale - 1) :
        (v - (Min(Range(col)) - Scale)) % r = 0}

GridRun ==
    /\ helper = "plot_decision_regions"
    /\ Len(args.X) > 0
    /\ ~PredictRaises(args.classifier)

(* C10: for non-empty X the prediction grid of plot_decision_regions runs *)
(* on each axis from min - 1 in steps of the resolution r up to but       *)
(* excluding max + 1; predict is called once, on one two-column row per   *)
(* grid point; xlim/ylim are the smallest and largest grid coordinate;    *)
(* and for 0 < r <= 1 every sample lies within these limits.              *)
C10_GridAndLimits ==
    GridRun =>
        LET G1 == AxisCoordinates([i \in 1..Len(args.X) |-> args.X[i][1]],
                                  args.resolution)
            G2 == AxisCoordinates([i \in 1..Len(args.X) |-> args.X[i][2]],
                                  args.resolution)
        IN  /\ Len(predicts) = 1
            /\ Len(predicts[1].arg) = Cardinality(G1) * Cardinality(G2)
            /\ \A k \in 1..Len(predicts[1].arg) : Len(predicts[1].arg[k]) = 2
            /\ Range(predicts[1].arg) = G1 \X G2
            /\ ReturnedRun =>
                  /\ Cardinality(CallsWhere(LAMBDA c : c.fn = "xlim")) = 1
                  /\ Cardinality(CallsWhere(LAMBDA c : c.fn = "ylim")) = 1
                  /\ \A k \in CallsWhere(LAMBDA c : c.fn = "xlim") :
                        /\ calls[k].lo = Min(G1) /\ calls[k].hi = Max(G1)
                        /\ args.resolution <= Scale =>
                              \A i \in 1..Len(args.X) :
                                 /\ calls[k].lo <= args.X[i][1]
                                 /\ args.X[i][1] <= calls[k].hi
                  /\ \A k \in CallsWhere(LAMBDA c : c.fn = "ylim") :
                        /\ calls[k].lo = Min(G2) /\ calls[k].hi = Max(G2)
                        /\ args.resolution <= Scale =>
                              \A i \in 1..Len(args.X) :
                                 /\ calls[k].lo <= args.X[i][2]
                                 /\ args.X[i][2] <= calls[k].hi

(* A completed call with a resolution of 1, samples at different          *)
(* coordinates and a last grid coordinate short of max + 1 by a full step. *)
C10_Witness ==
    /\ GridRun
    /\ ReturnedRun
    /\ args.resolution = Scale
    /\ \E i, j \in 1..Len(args.X) : args.X[i][1] < args.X[j][1]
    /\ \E k \in CallsWhere(LAMBDA c : c.fn = "xlim") :
          /\ calls[k].hi + 1 < Max({args.X[i][1] : i \in 1..Len(args.X)}) + Scale
          /\ calls[k].hi >= Max({args.X[i][1] : i \in 1..Len(args.X)})

(* Above a resolution of 1 a sample can lie beyond the last grid coordinate. *)
C10_SampleBeyondLimit ==
    /\ GridRun
    /\ ReturnedRun
    /\ args.resolution > Scale
    /\ \E k \in CallsWhere(LAMBDA c : c.fn = "xlim") :
          \E i \in 1..Len(args.X) : args.X[i][1] > calls[k].hi

-----------------------------------------------------------------------------
(* The example script. *)

Fitted == pc \in {"predict", "plot", "done", "raised"}

(* The events after the four fits: print, plot, print, plot, ... *)
LoopEvents == SubSeq(events, 5, Len(events))

(* C5: main fits exactly four classifiers, all on (X_train_std, y_train), *)
(* and handles them in list order (k=4,p=2; k=5,p=2; k=6,p=2; k=5,p=1):   *)
(* for each it prints one misclassification count, the number of test     *)
(* positions j with y_test[j] # predict(X_test_std)[j], and only then     *)
(* calls plot_decision_regions once for that classifier; the run ends     *)
(* after exactly four print/plot pairs.                                   *)
C5_FitThenPrintThenPlot ==
    /\ pc # "raised"
    /\ ~Fitted => events = <<>>
    /\ Fitted =>
          /\ Len(locals.classifiers) = 4
          /\ <<locals.classifiers[1].n_neighbors, locals.classifiers[1].p>> = <<4, 2>>
          /\ <<locals.classifiers[2].n_neighbors, locals.classifiers[2].p>> = <<5, 2>>
          /\ <<locals.classifiers[3].n_neighbors, locals.classifiers[3].p>> = <<6, 2>>
          /\ <<locals.classifiers[4].n_neighbors, locals.classifiers[4].p>> = <<5, 1>>
          /\ Len(events) >= 4
          /\ \A k \in 1..4 :
                /\ events[k].ev = "fit"
                /\ events[k].classifier = k
                /\ events[k].X = locals.X_train_std
                /\ events[k].y = locals.y_train
                /\ locals.classifiers[k].fit_X = locals.X_train_std
                /\ locals.classifiers[k].fit_y = locals.y_train
          /\ \A m \in 1..Len(LoopEvents) :
                /\ LoopEvents[m].ev = (IF m % 2 = 1 THEN "print" ELSE "plot")
                /\ LoopEvents[m].classifier = (m + 1) \div 2
                /\ LoopEvents[m].ev = "print" =>
                      /\ LoopEvents[m].count =
                            Cardinality(
                              {j \in 1..Len(locals.y_test) :
                                 locals.y_test[j] #
                                    PredictOne(
                                      locals.classifiers[LoopEvents[m].classifier],
                                      locals.X_test_std[j])})
                      /\ LoopEvents[m].count >= 0
                      /\ LoopEvents[m].count <= Len(locals.y_test)
          /\ Len(LoopEvents) <= 8
          /\ pc = "plot" <=> Len(LoopEvents) % 2 = 1
          /\ pc = "done" <=> Len(LoopEvents) = 8
          /\ (Len(LoopEvents) > 0 /\ LoopEvents[Len(LoopEvents)].ev = "plot") =>
                /\ helper = "plot_decision_regions"
                /\ ReturnedRun
                /\ args.classifier =
                      locals.classifiers[LoopEvents[Len(LoopEvents)].classifier]

C5_Witness ==
    /\ pc = "done"
    /\ Len(events) = 12
    /\ Len(locals.y_test) = 2
    /\ events[5].count = 1
    /\ events[7].count = Len(locals.y_test)
    /\ events[11].count < events[9].count

(* C9: the index list main passes as test_idx, range(len(y_train),        *)
(* len(y)), names exactly the held-out samples of the combined arrays:    *)
(* these are the training rows followed by the test rows, len(y_train) +  *)
(* len(y_test) = len(y), every index is within bounds, and with at least  *)
(* one test sample the overlay is drawn in each plot.                     *)
C9_TestIdxNamesHeldOut ==
    /\ pc \in {"fit", "predict", "plot", "done"} =>
          /\ Len(locals.y_train) + Len(locals.y_test) = Len(locals.y)
          /\ Len(locals.X_combined_std) = Len(locals.y)
          /\ Len(locals.y_combined) = Len(locals.y)
          /\ \A i \in 1..Len(locals.y_train) :
                /\ locals.X_combined_std[i] = locals.X_train_std[i]
                /\ locals.y_combined[i] = locals.y_train[i]
          /\ \A i \in 1..Len(locals.y_test) :
                /\ locals.X_combined_std[Len(locals.y_train) + i] =
                      locals.X_test_std[i]
                /\ locals.y_combined[Len(locals.y_train) + i] = locals.y_test[i]
    /\ helper = "plot_decision_regions" =>
          /\ args.X = locals.X_combined_std
          /\ args.y = locals.y_combined
          /\ ~args.test_idx.isNone
          /\ \A pos \in 0..(Len(locals.y) - 1) :
                pos \in Range(args.test_idx.value) <=> pos >= Len(locals.y_train)
          /\ \A m \in 1..Len(args.test_idx.value) :
                /\ args.test_idx.value[m] >= 0
                /\ args.test_idx.value[m] < Len(locals.y_combined)
          /\ Len(locals.y_test) >= 1 =>
                /\ args.test_idx.value # <<>>
                /\ ReturnedRun
                /\ Cardinality(CallsWhere(IsTestScatter)) = 1
                /\ \A k \in CallsWhere(IsTestScatter) :
                      /\ calls[k].x = [j \in 1..Len(locals.X_test_std) |->
                                          locals.X_test_std[j][1]]
                      /\ calls[k].y = [j \in 1..Len(locals.X_test_std) |->
                                          locals.X_test_std[j][2]]

C9_Witness ==
    /\ pc = "done"
    /\ helper = "plot_decision_regions"
    /\ Len(locals.y_test) = 2
    /\ Len(locals.y_train) = 2
    /\ args.test_idx = Some(<<2, 3>>)
    /\ locals.X_test_std[1][1] > locals.X_test_std[2][1]
    /\ Cardinality(CallsWhere(IsTestScatter)) = 1

====
